---- MODULE Spec2Model ----
(***************************************************************************)
(* Model of the sampling / analysis / aggregation pipeline of              *)
(* action_recognition.py: ActionRecognitionSystem.process_video_file,      *)
(* process_live_video, analyze_frame and generate_summary.                 *)
(*                                                                         *)
(* Spec models one run of one driver.  Texts are sequences of string       *)
(* tokens; an exception message is a sequence of words.  Time is counted   *)
(* in ticks of half a second (the pacing delay of time.sleep(0.5)).        *)
(* ParallelSpec models the file-mode runs of several upload requests of    *)
(* web_app.py that are served at the same time, UploadSpec the whole       *)
(* handler upload_video around them, with the files it writes.             *)
(***************************************************************************)
EXTENDS Integers, Sequences, FiniteSets, TLC

VARIABLES
    mode,             \* "file" (process_video_file) or "live" (process_live_video)
    frame_interval,   \* the stride N
    source_frames,    \* frames cap.read() yields before its first failed read
    opens,            \* cap.isOpened()
    fps,              \* int(cap.get(CAP_PROP_FPS)), file mode
    total_frames,     \* int(cap.get(CAP_PROP_FRAME_COUNT)), file mode
    duration_seconds, \* the live time budget, in seconds
    pc,               \* position of the run in the driver / generate_summary
    frame_count,
    analyzed_count,
    frame_analyses,   \* the batch: sequence of [frame, time, analysis]
    now,              \* time.time() - start_time, in ticks
    elapsed,          \* the local of process_live_video: <<>> while unbound, <<t>> once assigned
    sleeps,           \* number of time.sleep(0.5) calls made
    frame_error,      \* str(e) inside the except of analyze_frame, << >> outside it
    q_pending,        \* the key 'q' was pressed in the preview window and not yet discarded
    in_flight,        \* number of inference requests issued and not yet completed
    calls,            \* log of the inference calls issued: sequence of [kind, model, progress]
    summary_prompt,   \* prompt of the last report call
    digest_prompt,    \* prompt of the last digest call (summary_prompt_final)
    summary,          \* the local `summary` of generate_summary
    error_msg,        \* str(e) of the primary report failure
    result,           \* what the driver returned: [kind, text]
    runs,             \* the upload requests served in parallel: request -> its run
    disk,             \* the folders uploads/ and reports/ of web_app.py: path -> content
    pdf               \* one request for the summary PDF of a stored report

vars == << mode, frame_interval, source_frames, opens, fps, total_frames,
           duration_seconds, pc, frame_count, analyzed_count, frame_analyses,
           now, elapsed, sleeps, frame_error, q_pending, in_flight, calls,
           summary_prompt, digest_prompt, summary, error_msg, result, runs,
           disk, pdf >>

(***************************************************************************)
(* Bounds of the model.                                                    *)
(***************************************************************************)
MaxFrames == 3      \* source_frames ranges over 0..MaxFrames
MaxStride == 3      \* frame_interval ranges over 1..MaxStride
MaxDuration == 2    \* duration_seconds ranges over 0..MaxDuration
MaxChunks == 1      \* a report stream delivers at most MaxChunks chunks
FpsValues == {0, 1, 2}       \* values of int(cap.get(CAP_PROP_FPS)); 1 and 2 divide a second into whole ticks
ReadTicks == {0, 1}          \* ticks one cap.read() + imshow may take in live mode
CallTicks == {0, 1}          \* ticks one analyze_frame call may take

(***************************************************************************)
(* Program constants.                                                      *)
(***************************************************************************)
TicksPerSecond == 2          \* the clock unit is the 0.5 s of time.sleep(0.5)
PacingDelay == 1             \* time.sleep(0.5): one tick
DefaultModel == "meta-llama/llama-4-scout-17b-16e-instruct"
alt_model == "llama-3.1-70b-versatile"

(***************************************************************************)
(* Exception messages the remote client can raise, as word sequences.      *)
(***************************************************************************)
FrameErrors == { <<"Vision", "unsupported">>, <<"invalid", "Image">>, <<"rate", "limit">> }
\* a report request addressed to `model` can be refused with one of these
ReportErrors(model) == { << model, "Decommissioned" >>,
                         << model, "No", "Longer", "Supported" >>,
                         << "rate", "limit" >> }

\* str.lower() on one word
LowerWord(w) ==
    CASE w = "Vision" -> "vision"
      [] w = "Image" -> "image"
      [] w = "Decommissioned" -> "decommissioned"
      [] w = "No" -> "no"
      [] w = "Longer" -> "longer"
      [] w = "Supported" -> "supported"
      [] OTHER -> w

\* error_msg.lower()
Lower(msg) == [i \in 1..Len(msg) |-> LowerWord(msg[i])]

\* `phrase in text` for a phrase of whole words
Contains(text, phrase) ==
    \E i \in 1..Len(text) :
        /\ i + Len(phrase) - 1 <= Len(text)
        /\ SubSeq(text, i, i + Len(phrase) - 1) = phrase

(***************************************************************************)
(* Pure functions of the program.                                          *)
(***************************************************************************)

\* f"{t:.1f}" for a time t given in ticks of half a second
FormatTime(t) ==
    ToString(t \div TicksPerSecond) \o "." \o (IF t % TicksPerSecond = 0 THEN "0" ELSE "5")

\* process_video_file: frame_count / fps if fps > 0 else 0   (in ticks)
FileTime(n, rate) == IF rate > 0 THEN (n * TicksPerSecond) \div rate ELSE 0

\* a progress context that always names the total
ProgressWithTotal(frame_number, total) ==
    << " (", ToString(frame_number), "/", ToString(total), ")" >>

\* analyze_frame line 25: the progress context of the prompt, as tokens;
\* `if total_frames` is false for 0 and for the default None (passed as 0 here)
Progress(frame_number, total) ==
    IF total # 0
      THEN << " (", ToString(frame_number), "/", ToString(total), ")" >>
      ELSE << " (Frame ", ToString(frame_number), ")" >>

\* analyze_frame: the text returned when the remote call returned `content`
AnalyzeOk(content) == content

\* an except branch that looks for "vision" and "image" without lower()
AnalyzeErrorCaseSensitive(model, msg) ==
    IF Contains(msg, <<"vision">>) \/ Contains(msg, <<"image">>)
      THEN << "Error: Model '", model,
              "' may not support vision. Try using --model llama-3.2-11b-vision-preview" >>
      ELSE << "Error analyzing frame: " >> \o msg

\* analyze_frame: the text returned when the remote call raised with str(e) = msg
AnalyzeError(model, msg) ==
    IF Contains(Lower(msg), <<"vision">>) \/ Contains(Lower(msg), <<"image">>)
      THEN << "Error: Model '", model,
              "' may not support vision. Try using --model llama-3.2-11b-vision-preview" >>
      ELSE << "Error analyzing frame: " >> \o msg

\* the description a model gives of frame n (any text without meaning to the program)
Description(n) == << "description of frame " \o ToString(n) >>

\* a stride test that counts frames from one instead of from zero
EligibleFromOne(count, interval) == (count + 1) % interval = 0

\* the frames the driver submits: frame_count % frame_interval == 0
Eligible(count, interval) == count % interval = 0

\* an insert at the head of the batch instead of an append
PrependAnalysis(batch, entry) == << entry >> \o batch

\* frame_analyses.append({...})
AppendAnalysis(batch, entry) == Append(batch, entry)

\* generate_summary: f"[Frame {fa['frame']} at {fa['time']:.1f}s]: {fa['analysis']}"
FrameLine(fa) ==
    << "[Frame " \o ToString(fa.frame) \o " at " \o FormatTime(fa.time) \o "s]: " >>
        \o fa.analysis

\* "\n\n".join(lines)
RECURSIVE Join(_)
Join(lines) ==
    IF lines = << >> THEN << >>
    ELSE IF Len(lines) = 1 THEN lines[1]
    ELSE lines[1] \o << "\n\n" >> \o Join(Tail(lines))

\* generate_summary: combined_analysis
CombinedAnalysis(batch) == Join([i \in 1..Len(batch) |-> FrameLine(batch[i])])

\* generate_summary: summary_prompt
SummaryPrompt(batch, duration) ==
    << "Based on the following frame-by-frame analysis of a video (",
       FormatTime(duration),
       " seconds), create a comprehensive summary report:\n\n" >>
    \o CombinedAnalysis(batch)
    \o << "\n\nPlease provide: 5 sections. Format as a clear, structured report." >>

\* generate_summary: summary_prompt_final
DigestPrompt(report) ==
    << "Based on the following comprehensive video analysis report, create a brief executive summary:\n\n" >>
    \o report
    \o << "\n\nKeep it brief and to the point." >>

\* the i-th chunk a model streams for a report, and the digest it returns
Chunk(model, i) == model \o " report chunk " \o ToString(i)
Digest(model) == model \o " digest"

Rule == "\n\n====\n"
Heading == "EXECUTIVE SUMMARY\n"
Underline == "====\n\n"
Placeholder == "Summary generation unavailable. Please refer to the detailed report above."
Sentinel == "No frames were analyzed."

\* generate_summary lines 254-256 / 339-341: the section header
WithHeader(report) == report \o << Rule, Heading, Underline >>

\* generate_summary lines 253-258 / 338-343: the digest call returned final_summary
WithDigest(report, final_summary) ==
    WithHeader(report) \o << final_summary, Rule >>

\* a digest failure that is reported like a failure of the report call
DigestFailureAsError(report) == << "Error generating summary: ", "digest failed" >>

\* generate_summary lines 266-273 / 351-358: the inner except, entered with the
\* value `summary` has when the exception is raised
WithPlaceholder(report) == WithHeader(report) \o << Placeholder, Rule >>

\* a decommission test that looks for the word "decommissioned" alone
IsDecommissionedWordOnly(msg) == Contains(Lower(msg), <<"decommissioned">>)

\* a handler that retries on the fallback model after any failure
AnyFailure(msg) == TRUE

\* generate_summary line 279: the decommission test on str(e)
IsDecommissioned(msg) ==
    \/ Contains(Lower(msg), <<"decommissioned">>)
    \/ Contains(Lower(msg), <<"no", "longer", "supported">>)

\* generate_summary line 363
PrimaryErrorReport(msg) == << "Error generating summary: " >> \o msg

\* a fallback failure answered with an empty report
EmptyReport(msg) == << >>

\* generate_summary line 362
FallbackErrorReport(msg) == << "Error generating summary with alternative model: " >> \o msg

\* values of `result`
\* no summary PDF is requested
NoPdfRequest == [pc |-> "idle"]

Pending == [kind |-> "pending", text |-> << >>]
ReturnNone == [kind |-> "none", text |-> << >>]
ReturnText(t) == [kind |-> "text", text |-> t]
Raised(e) == [kind |-> "raised", text |-> << e >>]

Call(kind, model, progress) == [kind |-> kind, model |-> model, progress |-> progress]

(***************************************************************************)
(* Initial states: the arguments of the run and the behaviour of the       *)
(* source, before the driver is entered.                                   *)
(***************************************************************************)
Init ==
    /\ mode \in {"file", "live"}
    /\ frame_interval \in 1..MaxStride
    /\ source_frames \in 0..MaxFrames
    /\ opens \in BOOLEAN
    /\ fps \in FpsValues
    /\ total_frames \in {source_frames, 0}   \* CAP_PROP_FRAME_COUNT is 0 when the container does not tell
    /\ duration_seconds \in 0..MaxDuration
    /\ mode = "file" => duration_seconds = 0
    /\ mode = "live" => (fps = 0 /\ total_frames = 0)   \* a camera run uses neither
    /\ pc = "open"
    /\ frame_count = 0
    /\ analyzed_count = 0
    /\ frame_analyses = << >>
    /\ now = 0
    /\ elapsed = << >>
    /\ sleeps = 0
    /\ frame_error = << >>
    /\ q_pending = FALSE
    /\ in_flight = 0
    /\ calls = << >>
    /\ summary_prompt = << >>
    /\ digest_prompt = << >>
    /\ summary = << >>
    /\ error_msg = << >>
    /\ result = Pending
    /\ runs = << >>
    /\ disk = [uploads |-> << >>, reports |-> << >>]
    /\ pdf = NoPdfRequest

\* self.model
Model == DefaultModel

\* a budget that lets the loop run one second longer
BudgetWithGrace == (duration_seconds + 1) * TicksPerSecond

\* the budget of process_live_video in ticks
Budget == duration_seconds * TicksPerSecond

\* the `duration` argument of generate_summary
Duration ==
    IF mode = "file" THEN FileTime(total_frames, fps) ELSE elapsed[1]

input_vars == << mode, frame_interval, source_frames, opens, fps, total_frames,
                 duration_seconds >>
summary_vars == << summary_prompt, digest_prompt, summary, error_msg >>
loop_vars == << frame_count, analyzed_count, frame_analyses, now, elapsed, sleeps,
               frame_error >>

\* the driver returns value r
Return(r) ==
    /\ result' = r
    /\ pc' = "done"

\* an open failure that is not noticed: the frame loop is entered
OpenFailureIgnored ==
    /\ pc' = "read"
    /\ UNCHANGED result

\* process_video_file lines 75-77 / process_live_video lines 124-126:
\* a source that cannot be opened: return None
OpenFailure == Return(ReturnNone)

Open ==
    /\ pc = "open"
    /\ IF ~opens
         THEN OpenFailure
         ELSE /\ pc' = "read"
              /\ UNCHANGED result
    /\ UNCHANGED << input_vars, loop_vars, q_pending, in_flight, calls, summary_vars >>
    /\ UNCHANGED << runs, disk >>
    /\ UNCHANGED pdf

\* a file loop that issues the call for an eligible frame and reads on without
\* waiting for it
ReadFilePrefetch ==
    /\ pc = "read"
    /\ mode = "file"
    /\ IF frame_count >= source_frames
         THEN /\ pc' = "release"
              /\ UNCHANGED << frame_count, calls, in_flight >>
         ELSE /\ frame_count' = frame_count + 1
              /\ UNCHANGED pc
              /\ IF Eligible(frame_count, frame_interval)
                   THEN /\ calls' = Append(calls, Call("frame", Model, Progress(frame_count, total_frames)))
                        /\ in_flight' = in_flight + 1
                   ELSE UNCHANGED << calls, in_flight >>
    /\ UNCHANGED << input_vars, analyzed_count, frame_analyses, now, elapsed, sleeps,
                    frame_error, q_pending, summary_vars, result >>
    /\ UNCHANGED << runs, disk >>
    /\ UNCHANGED pdf

\* process_video_file lines 91-100, 110: one cap.read() and the stride test
ReadFile ==
    /\ pc = "read"
    /\ mode = "file"
    /\ IF frame_count >= source_frames
         THEN \* ret is False: break
              /\ pc' = "release"
              /\ UNCHANGED << frame_count, calls, in_flight >>
         ELSE IF Eligible(frame_count, frame_interval)
           THEN \* analyze_frame is called: the remote call is issued
                /\ calls' = Append(calls, Call("frame", Model, Progress(frame_count, total_frames)))
                /\ in_flight' = in_flight + 1
                /\ pc' = "analyze"
                /\ UNCHANGED frame_count
           ELSE /\ frame_count' = frame_count + 1
                /\ UNCHANGED << pc, calls, in_flight >>
    /\ UNCHANGED << input_vars, analyzed_count, frame_analyses, now, elapsed, sleeps,
                    frame_error, q_pending, summary_vars, result >>
    /\ UNCHANGED << runs, disk >>
    /\ UNCHANGED pdf

\* the user presses 'q' in the preview window at any moment of the live loop;
\* the key event waits for the next cv2.waitKey
PressQ ==
    /\ mode = "live"
    /\ pc \in {"read", "analyze", "analyze_except", "sleep"}
    /\ ~q_pending
    /\ q_pending' = TRUE
    /\ UNCHANGED << input_vars, pc, loop_vars, in_flight, calls, summary_vars, result >>
    /\ UNCHANGED << runs, disk >>
    /\ UNCHANGED pdf

\* process_live_video lines 134-154, 164: one cap.read(), the two stop tests
\* and the stride test.  cv2.waitKey(1) at line 147 returns 'q' when the key is
\* pending.
ReadLive ==
    /\ pc = "read"
    /\ mode = "live"
    /\ \E dt \in ReadTicks :
        /\ now' = now + dt
        /\ IF frame_count >= source_frames
             THEN \* ret is False: break before `elapsed` is assigned
                  /\ pc' = "release"
                  /\ UNCHANGED << frame_count, calls, in_flight, elapsed >>
             ELSE /\ elapsed' = << now' >>
                  /\ IF now' >= Budget \/ q_pending
                       THEN /\ pc' = "release"
                            /\ UNCHANGED << frame_count, calls, in_flight >>
                       ELSE IF Eligible(frame_count, frame_interval)
                         THEN /\ calls' = Append(calls, Call("frame", Model, Progress(frame_count, 0)))
                              /\ in_flight' = in_flight + 1
                              /\ pc' = "analyze"
                              /\ UNCHANGED frame_count
                         ELSE /\ frame_count' = frame_count + 1
                              /\ UNCHANGED << pc, calls, in_flight >>
    /\ UNCHANGED << input_vars, analyzed_count, frame_analyses, sleeps, frame_error,
                    q_pending, summary_vars, result >>
    /\ UNCHANGED << runs, disk >>
    /\ UNCHANGED pdf

\* the 'time' field of a batch entry: lines 103 and 157
EntryTime ==
    IF mode = "file" THEN FileTime(frame_count, fps) ELSE elapsed[1]

\* lines 101-107 / 155-161: the text analyze_frame returned is appended
Record(analysis) ==
    /\ frame_analyses' = AppendAnalysis(frame_analyses,
           [frame |-> frame_count, time |-> EntryTime, analysis |-> analysis])
    /\ analyzed_count' = analyzed_count + 1
    /\ pc' = "sleep"

\* ticks the remote call of analyze_frame may take
AnalyzeTicks == IF mode = "live" THEN CallTicks ELSE {0}

\* an analysis call that a pending 'q' abandons: its result is dropped and the
\* loop is left
AnalyzeReturnAbandons ==
    /\ pc = "analyze"
    /\ \E dt \in AnalyzeTicks : now' = now + dt
    /\ IF q_pending
         THEN /\ pc' = "release"
              /\ UNCHANGED << frame_analyses, analyzed_count >>
         ELSE Record(AnalyzeOk(Description(frame_count)))
    /\ in_flight' = in_flight - 1
    /\ UNCHANGED << input_vars, frame_count, elapsed, sleeps, frame_error, q_pending,
                    calls, summary_vars, result >>
    /\ UNCHANGED << runs, disk >>
    /\ UNCHANGED pdf

\* lines 54-63 and 100-107 / 154-161: the remote call returns a description,
\* analyze_frame returns it and it is appended
AnalyzeReturn ==
    /\ pc = "analyze"
    /\ \E dt \in AnalyzeTicks : now' = now + dt
    /\ Record(AnalyzeOk(Description(frame_count)))
    /\ in_flight' = in_flight - 1
    /\ UNCHANGED << input_vars, frame_count, elapsed, sleeps, frame_error, q_pending,
                    calls, summary_vars, result >>
    /\ UNCHANGED << runs, disk >>
    /\ UNCHANGED pdf

\* lines 54, 64-65: the remote call raises; error_msg = str(e)
AnalyzeRaise ==
    /\ pc = "analyze"
    /\ \E dt \in AnalyzeTicks : now' = now + dt
    /\ \E msg \in FrameErrors : frame_error' = msg
    /\ in_flight' = in_flight - 1
    /\ pc' = "analyze_except"
    /\ UNCHANGED << input_vars, frame_count, analyzed_count, frame_analyses, elapsed,
                    sleeps, q_pending, calls, summary_vars, result >>
    /\ UNCHANGED << runs, disk >>
    /\ UNCHANGED pdf

\* an analyze_frame whose exception leaves the frame loop without an entry
AnalyzeExceptAborts ==
    /\ pc = "analyze_except"
    /\ pc' = "release"
    /\ frame_error' = << >>
    /\ UNCHANGED << input_vars, frame_count, analyzed_count, frame_analyses, now, elapsed,
                    sleeps, q_pending, in_flight, calls, summary_vars, result >>
    /\ UNCHANGED << runs, disk >>
    /\ UNCHANGED pdf

\* lines 66-68 and 100-107 / 154-161: the except branch of analyze_frame returns
\* its text and it is appended
AnalyzeExcept ==
    /\ pc = "analyze_except"
    /\ Record(AnalyzeError(Model, frame_error))
    /\ frame_error' = << >>
    /\ UNCHANGED << input_vars, frame_count, now, elapsed, sleeps, q_pending, in_flight,
                    calls, summary_vars, result >>
    /\ UNCHANGED << runs, disk >>
    /\ UNCHANGED pdf

\* an analyzed frame that is followed by no pacing delay
SleepOmitted ==
    /\ pc = "sleep"
    /\ frame_count' = frame_count + 1
    /\ pc' = "read"
    /\ UNCHANGED << input_vars, analyzed_count, frame_analyses, now, elapsed, sleeps,
                    frame_error, q_pending, in_flight, calls, summary_vars, result >>
    /\ UNCHANGED << runs, disk >>
    /\ UNCHANGED pdf

\* lines 108-110 / 162-164: time.sleep(0.5); frame_count += 1
Sleep ==
    /\ pc = "sleep"
    /\ sleeps' = sleeps + 1
    /\ now' = IF mode = "live" THEN now + PacingDelay ELSE now
    /\ frame_count' = frame_count + 1
    /\ pc' = "read"
    /\ UNCHANGED << input_vars, analyzed_count, frame_analyses, elapsed, frame_error,
                    q_pending, in_flight, calls, summary_vars, result >>
    /\ UNCHANGED << runs, disk >>
    /\ UNCHANGED pdf

(***************************************************************************)
(* generate_summary.                                                       *)
(***************************************************************************)

\* a generate_summary without the empty-batch guard
NeverEmptyBatch(batch) == FALSE

\* line 173: `if not frame_analyses`
EmptyBatch(batch) == batch = << >>

\* lines 112-113 / 166-169: cap.release() and the evaluation of the call
\* self.generate_summary(frame_analyses, duration | elapsed).  In live mode the
\* local `elapsed` is read; it is unbound when no read succeeded, and the read of
\* an unbound local raises UnboundLocalError out of the driver.
Release ==
    /\ pc = "release"
    /\ IF mode = "live" /\ elapsed = << >>
         THEN Return(Raised("UnboundLocalError"))
         ELSE /\ pc' = "generate_summary"
              /\ UNCHANGED result
    /\ q_pending' = FALSE   \* line 167: cv2.destroyAllWindows() drops the window and its key
    /\ UNCHANGED << input_vars, loop_vars, in_flight, calls, summary_vars >>
    /\ UNCHANGED << runs, disk >>
    /\ UNCHANGED pdf

\* lines 171-211: generate_summary up to the issue of the primary report request
GenerateSummary ==
    /\ pc = "generate_summary"
    /\ IF EmptyBatch(frame_analyses)
         THEN /\ Return(ReturnText(<< Sentinel >>))
              /\ UNCHANGED << calls, in_flight, summary_prompt >>
         ELSE /\ summary_prompt' = SummaryPrompt(frame_analyses, Duration)
              /\ calls' = Append(calls, Call("report", Model, << >>))
              /\ in_flight' = in_flight + 1
              /\ pc' = "primary_report"
              /\ UNCHANGED result
    /\ UNCHANGED << input_vars, loop_vars, q_pending, digest_prompt, summary, error_msg >>
    /\ UNCHANGED << runs, disk >>
    /\ UNCHANGED pdf

\* lines 276-296 and 363: the outer except, entered with str(e) = msg
PrimaryExcept(msg) ==
    /\ error_msg' = msg
    /\ IF IsDecommissioned(msg)
         THEN /\ calls' = Append(calls, Call("report", alt_model, << >>))
              /\ in_flight' = in_flight - 1 + 1   \* the failed request ended, one is issued
              /\ pc' = "fallback_report"
              /\ UNCHANGED result
         ELSE /\ Return(ReturnText(PrimaryErrorReport(msg)))
              /\ in_flight' = in_flight - 1
              /\ UNCHANGED calls

\* lines 199-213: the primary report request returns a stream, or raises
PrimaryReportReturn ==
    /\ pc = "primary_report"
    /\ \/ /\ summary' = << >>
          /\ pc' = "primary_stream"
          /\ UNCHANGED << calls, in_flight, error_msg, result >>
       \/ /\ \E msg \in ReportErrors(Model) : PrimaryExcept(msg)
          /\ UNCHANGED summary
    /\ UNCHANGED << input_vars, loop_vars, q_pending, summary_prompt, digest_prompt >>
    /\ UNCHANGED << runs, disk >>
    /\ UNCHANGED pdf

\* lines 217-220: the stream delivers one more chunk
PrimaryChunk ==
    /\ pc = "primary_stream"
    /\ Len(summary) < MaxChunks
    /\ summary' = Append(summary, Chunk(Model, Len(summary) + 1))
    /\ UNCHANGED << input_vars, loop_vars, q_pending, in_flight, pc, calls,
                    summary_prompt, digest_prompt, error_msg, result >>
    /\ UNCHANGED << runs, disk >>
    /\ UNCHANGED pdf

\* lines 217, 276: the stream raises while it is iterated
PrimaryStreamError ==
    /\ pc = "primary_stream"
    /\ \E msg \in ReportErrors(Model) : PrimaryExcept(msg)
    /\ UNCHANGED << input_vars, loop_vars, q_pending, summary_prompt, digest_prompt, summary >>
    /\ UNCHANGED << runs, disk >>
    /\ UNCHANGED pdf

\* lines 221-249: the stream ends; the digest request is issued
PrimaryStreamEnd ==
    /\ pc = "primary_stream"
    /\ digest_prompt' = DigestPrompt(summary)
    /\ calls' = Append(calls, Call("digest", Model, << >>))
    /\ in_flight' = in_flight - 1 + 1   \* the report request ended, the digest one is issued
    /\ pc' = "primary_digest"
    /\ UNCHANGED << input_vars, loop_vars, q_pending, summary_prompt, summary, error_msg,
                    result >>
    /\ UNCHANGED << runs, disk >>
    /\ UNCHANGED pdf

\* lines 251-275 / 336-360: the outcomes of a digest request for `report`:
\* it returns a text, it returns no content (None, so line 257 raises after the
\* header was appended), or it raises
DigestOutcomes(report, model) ==
    { WithDigest(report, Digest(model)),
      WithPlaceholder(WithHeader(report)),
      WithPlaceholder(report) }

\* a digest stage that sends the request again when it failed
PrimaryDigestRetried ==
    /\ pc = "primary_digest"
    /\ \/ /\ summary' = WithDigest(summary, Digest(Model))
          /\ Return(ReturnText(summary'))
          /\ in_flight' = in_flight - 1
          /\ UNCHANGED calls
       \/ /\ calls' = Append(calls, Call("digest", Model, << >>))
          /\ UNCHANGED << pc, summary, in_flight, result >>
    /\ UNCHANGED << input_vars, loop_vars, q_pending, summary_prompt, digest_prompt,
                    error_msg >>
    /\ UNCHANGED << runs, disk >>
    /\ UNCHANGED pdf

\* lines 237-275: the digest request returns or raises; return summary
PrimaryDigestReturn ==
    /\ pc = "primary_digest"
    /\ \E text \in DigestOutcomes(summary, Model) :
        /\ summary' = text
        /\ Return(ReturnText(text))
    /\ in_flight' = in_flight - 1
    /\ UNCHANGED << input_vars, loop_vars, q_pending, calls, summary_prompt, digest_prompt,
                    error_msg >>
    /\ UNCHANGED << runs, disk >>
    /\ UNCHANGED pdf

\* a fallback branch that goes on with the text the primary stream left
FallbackReportReturnKeepsText ==
    /\ pc = "fallback_report"
    /\ \/ /\ pc' = "fallback_stream"
          /\ UNCHANGED << summary, in_flight, result >>
       \/ /\ \E msg \in ReportErrors(alt_model) : Return(ReturnText(FallbackErrorReport(msg)))
          /\ in_flight' = in_flight - 1
          /\ UNCHANGED summary
    /\ UNCHANGED << input_vars, loop_vars, q_pending, calls, summary_prompt, digest_prompt,
                    error_msg >>
    /\ UNCHANGED << runs, disk >>
    /\ UNCHANGED pdf

\* lines 284-298 and 361-362: the fallback report request returns a stream, or raises
FallbackReportReturn ==
    /\ pc = "fallback_report"
    /\ \/ /\ summary' = << >>
          /\ pc' = "fallback_stream"
          /\ UNCHANGED << in_flight, result >>
       \/ /\ \E msg \in ReportErrors(alt_model) : Return(ReturnText(FallbackErrorReport(msg)))
          /\ in_flight' = in_flight - 1
          /\ UNCHANGED summary
    /\ UNCHANGED << input_vars, loop_vars, q_pending, calls, summary_prompt, digest_prompt,
                    error_msg >>
    /\ UNCHANGED << runs, disk >>
    /\ UNCHANGED pdf

\* lines 302-305
FallbackChunk ==
    /\ pc = "fallback_stream"
    /\ Len(summary) < MaxChunks
    /\ summary' = Append(summary, Chunk(alt_model, Len(summary) + 1))
    /\ UNCHANGED << input_vars, loop_vars, q_pending, in_flight, pc, calls,
                    summary_prompt, digest_prompt, error_msg, result >>
    /\ UNCHANGED << runs, disk >>
    /\ UNCHANGED pdf

\* lines 302, 361-362
FallbackStreamError ==
    /\ pc = "fallback_stream"
    /\ \E msg \in ReportErrors(alt_model) : Return(ReturnText(FallbackErrorReport(msg)))
    /\ in_flight' = in_flight - 1
    /\ UNCHANGED << input_vars, loop_vars, q_pending, calls, summary_prompt, digest_prompt,
                    summary, error_msg >>
    /\ UNCHANGED << runs, disk >>
    /\ UNCHANGED pdf

\* a fallback branch whose digest request goes back to the primary model
FallbackStreamEndToPrimary ==
    /\ pc = "fallback_stream"
    /\ digest_prompt' = DigestPrompt(summary)
    /\ calls' = Append(calls, Call("digest", Model, << >>))
    /\ in_flight' = in_flight - 1 + 1
    /\ pc' = "fallback_digest"
    /\ UNCHANGED << input_vars, loop_vars, q_pending, summary_prompt, summary, error_msg,
                    result >>
    /\ UNCHANGED << runs, disk >>
    /\ UNCHANGED pdf

\* lines 306-334
FallbackStreamEnd ==
    /\ pc = "fallback_stream"
    /\ digest_prompt' = DigestPrompt(summary)
    /\ calls' = Append(calls, Call("digest", alt_model, << >>))
    /\ in_flight' = in_flight - 1 + 1
    /\ pc' = "fallback_digest"
    /\ UNCHANGED << input_vars, loop_vars, q_pending, summary_prompt, summary, error_msg,
                    result >>
    /\ UNCHANGED << runs, disk >>
    /\ UNCHANGED pdf

\* lines 322-360
FallbackDigestReturn ==
    /\ pc = "fallback_digest"
    /\ \E text \in DigestOutcomes(summary, alt_model) :
        /\ summary' = text
        /\ Return(ReturnText(text))
    /\ in_flight' = in_flight - 1
    /\ UNCHANGED << input_vars, loop_vars, q_pending, calls, summary_prompt, digest_prompt,
                    error_msg >>
    /\ UNCHANGED << runs, disk >>
    /\ UNCHANGED pdf

Next ==
    \/ Open
    \/ ReadFile
    \/ PressQ
    \/ ReadLive
    \/ AnalyzeReturn
    \/ AnalyzeRaise
    \/ AnalyzeExcept
    \/ Sleep
    \/ Release
    \/ GenerateSummary
    \/ PrimaryReportReturn
    \/ PrimaryChunk
    \/ PrimaryStreamError
    \/ PrimaryStreamEnd
    \/ PrimaryDigestReturn
    \/ FallbackReportReturn
    \/ FallbackChunk
    \/ FallbackStreamError
    \/ FallbackStreamEnd
    \/ FallbackDigestReturn

Spec == Init /\ [][Next]_vars

\* The statements of the run are executed one after the other by one thread and
\* each blocking call (cap.read, the remote requests, time.sleep) returns or
\* raises after a finite time: a run that can take a step eventually takes one.
FairSpec == Spec /\ WF_vars(Next)

(***************************************************************************)
(* Upload requests served in parallel: web_app.upload_video builds one     *)
(* ActionRecognitionSystem per request and runs process_video_file on the  *)
(* uploaded file.  A run is a record; its steps interleave with the steps  *)
(* of the other runs.                                                      *)
(***************************************************************************)
MaxUpload == 2               \* an uploaded video has 0..MaxUpload frames
Requests == {"request a", "request b"}
UploadStrides == {1, 2}      \* values of the form field frame_interval
FormModels == {"", "llama-3.2-11b-vision-preview"}   \* the form field model, "" when absent
UploadFps == 1               \* CAP_PROP_FPS of an uploaded video
AnalyzeOutcomes == {<< >>, <<"rate", "limit">>}   \* the call returns, or raises with this message

\* the frames of the video uploaded with request r
Video(r, n) == [i \in 1..n |-> r \o " image " \o ToString(i - 1)]

\* the description a model returns for an image
Sees(model, image) == << model \o " sees " \o image >>

\* the report a model streams for a prompt
ReportOn(model, prompt) == << model \o " reports on: " >> \o prompt

\* ActionRecognitionSystem.__init__: self.client, self.model
NewSystem(r, form_model) ==
    [client |-> "Groq client of " \o r,
     model |-> IF form_model = "" THEN DefaultModel ELSE form_model]

\* lines 100-105: analyze_frame on frame n and the entry built from its text
RunEntry(model, video, n, outcome) ==
    [frame |-> n,
     time |-> FileTime(n, UploadFps),
     analysis |-> IF outcome = << >>
                    THEN AnalyzeOk(Sees(model, video[n + 1]))
                    ELSE AnalyzeError(model, outcome)]

\* generate_summary as far as the report text depends on the batch
RunReport(model, batch, total) ==
    IF EmptyBatch(batch)
      THEN << Sentinel >>
      ELSE ReportOn(model, SummaryPrompt(batch, FileTime(total, UploadFps)))

\* a batch that is one list shared by all runs
RunAppendShared(r, entry) ==
    [s \in Requests |-> [runs[s] EXCEPT !.frame_analyses = AppendAnalysis(@, entry)]]

\* line 101: frame_analyses.append(...) on the list created at line 87
RunAppend(r, entry) ==
    [runs EXCEPT ![r].frame_analyses = AppendAnalysis(@, entry)]

run_vars == << input_vars, pc, loop_vars, q_pending, in_flight, calls, summary_vars,
              result >>

ParallelInit ==
    /\ mode = "file"
    /\ frame_interval = 1
    /\ source_frames = 0
    /\ opens = FALSE
    /\ fps = 0
    /\ total_frames = 0
    /\ duration_seconds = 0
    /\ pc = "open"
    /\ frame_count = 0
    /\ analyzed_count = 0
    /\ frame_analyses = << >>
    /\ now = 0
    /\ elapsed = << >>
    /\ sleeps = 0
    /\ frame_error = << >>
    /\ q_pending = FALSE
    /\ in_flight = 0
    /\ calls = << >>
    /\ summary_prompt = << >>
    /\ digest_prompt = << >>
    /\ summary = << >>
    /\ error_msg = << >>
    /\ result = Pending
    /\ disk = [uploads |-> << >>, reports |-> << >>]
    /\ pdf = NoPdfRequest
    /\ \E len \in [Requests -> 0..MaxUpload] :
       \E stride \in [Requests -> UploadStrides] :
       \E form_model \in [Requests -> FormModels] :
          runs = [r \in Requests |->
                    [form_model |-> form_model[r],
                     frame_interval |-> stride[r],
                     video |-> Video(r, len[r]),
                     system |-> [client |-> "none", model |-> "none"],
                     pc |-> "request",
                     frame_count |-> 0,
                     frame_analyses |-> << >>,
                     outcomes |-> << >>,
                     summary |-> << >>]]

\* web_app.py line 83 and process_video_file lines 73-89: the system of the
\* request is built and the run starts with an empty batch
RunConstruct(r) ==
    /\ runs[r].pc = "request"
    /\ runs' = [runs EXCEPT ![r].system = NewSystem(r, runs[r].form_model),
                            ![r].frame_analyses = << >>,
                            ![r].frame_count = 0,
                            ![r].pc = "read"]
    /\ UNCHANGED run_vars
    /\ UNCHANGED disk
    /\ UNCHANGED pdf

\* lines 91-97, 110: one cap.read() and the stride test
RunRead(r) ==
    /\ runs[r].pc = "read"
    /\ runs' = IF runs[r].frame_count >= Len(runs[r].video)
                 THEN [runs EXCEPT ![r].pc = "summary"]
                 ELSE IF Eligible(runs[r].frame_count, runs[r].frame_interval)
                   THEN [runs EXCEPT ![r].pc = "analyze"]
                   ELSE [runs EXCEPT ![r].frame_count = @ + 1]
    /\ UNCHANGED run_vars
    /\ UNCHANGED disk
    /\ UNCHANGED pdf

\* lines 100-110: analyze_frame returns a text, the entry is appended, the run
\* sleeps and counts the frame
RunAnalyze(r) ==
    /\ runs[r].pc = "analyze"
    /\ \E outcome \in AnalyzeOutcomes :
          runs' = [RunAppend(r, RunEntry(runs[r].system.model, runs[r].video,
                                         runs[r].frame_count, outcome))
                      EXCEPT ![r].outcomes = Append(@, outcome),
                             ![r].frame_count = @ + 1,
                             ![r].pc = "read"]
    /\ UNCHANGED run_vars
    /\ UNCHANGED disk
    /\ UNCHANGED pdf

\* lines 112-113: cap.release() and generate_summary(frame_analyses, duration)
RunSummary(r) ==
    /\ runs[r].pc = "summary"
    /\ runs' = [runs EXCEPT ![r].summary = RunReport(runs[r].system.model,
                                                     runs[r].frame_analyses,
                                                     Len(runs[r].video)),
                            ![r].pc = "done"]
    /\ UNCHANGED run_vars
    /\ UNCHANGED disk
    /\ UNCHANGED pdf

ParallelNext ==
    \/ \E r \in Requests : RunConstruct(r)
    \/ \E r \in Requests : RunRead(r)
    \/ \E r \in Requests : RunAnalyze(r)
    \/ \E r \in Requests : RunSummary(r)

ParallelSpec == ParallelInit /\ [][ParallelNext]_vars

(***************************************************************************)
(* web_app.upload_video: the whole handler of an upload request, from the  *)
(* checks of the uploaded file to the response, around the run of          *)
(* process_video_file.  The requests are served by threads of one server   *)
(* and share the folders uploads/ and reports/.                            *)
(***************************************************************************)
Seconds == {0, 1}            \* values of int(time.time()) while the requests are served
UploadNames == {"my clip.mp4", "my_clip.mp4", "notes.txt"}   \* file.filename
FormStrides == {0, 1}        \* values of int(request.form.get('frame_interval', 30))
ReportFailures == { <<"rate", "limit">> }

\* filename.rsplit('.', 1)[1].lower()
Extension(name) ==
    CASE name = "my clip.mp4" -> "mp4"
      [] name = "my_clip.mp4" -> "mp4"
      [] name = "notes.txt" -> "txt"
      [] OTHER -> ""

\* allowed_file
AllowedFile(name) ==
    Extension(name) \in {"mp4", "avi", "mov", "mkv", "flv", "wmv", "webm", "m4v"}

\* werkzeug secure_filename: a blank becomes an underscore
SecureFilename(name) ==
    CASE name = "my clip.mp4" -> "my_clip.mp4"
      [] OTHER -> name

\* line 77: f"{timestamp}_{filename}" under uploads/
UploadPath(timestamp, name) == ToString(timestamp) \o "_" \o SecureFilename(name)

\* line 93: f"video_report_{timestamp}.txt" under reports/
ReportPath(timestamp) == "video_report_" \o ToString(timestamp) \o ".txt"

\* file.save(path) / open(path, 'w').write(content): the file is created or replaced
Write(folder, path, content) == (path :> content) @@ folder

\* os.remove(path)
Remove(folder, path) == [p \in (DOMAIN folder) \ {path} |-> folder[p]]

\* the seconds the clock can show now: not before a timestamp already taken
ClockNow ==
    { t \in Seconds : \A s \in Requests : runs[s].timestamp # << >> => runs[s].timestamp[1] <= t }

\* `if summary:` on a text
Truthy(text) == text # << >>

UploadInit ==
    /\ mode = "file"
    /\ frame_interval = 1
    /\ source_frames = 0
    /\ opens = FALSE
    /\ fps = 0
    /\ total_frames = 0
    /\ duration_seconds = 0
    /\ pc = "open"
    /\ frame_count = 0
    /\ analyzed_count = 0
    /\ frame_analyses = << >>
    /\ now = 0
    /\ elapsed = << >>
    /\ sleeps = 0
    /\ frame_error = << >>
    /\ q_pending = FALSE
    /\ in_flight = 0
    /\ calls = << >>
    /\ summary_prompt = << >>
    /\ digest_prompt = << >>
    /\ summary = << >>
    /\ error_msg = << >>
    /\ result = Pending
    /\ disk = [uploads |-> << >>, reports |-> << >>]
    /\ pdf = NoPdfRequest
    /\ \E len \in [Requests -> 0..MaxUpload] :
       \E playable \in [Requests -> BOOLEAN] :
       \E stride \in [Requests -> FormStrides] :
       \E name \in [Requests -> UploadNames] :
          /\ \A r \in Requests : ~playable[r] => len[r] = 0
          /\ runs = [r \in Requests |->
                    [filename |-> name[r],
                     upload |-> [frames |-> Video(r, len[r]), playable |-> playable[r]],
                     form_model |-> "",
                     frame_interval |-> stride[r],
                     timestamp |-> << >>,
                     video |-> << >>,
                     system |-> [client |-> "none", model |-> "none"],
                     pc |-> "upload",
                     frame_count |-> 0,
                     frame_analyses |-> << >>,
                     outcomes |-> << >>,
                     summary |-> << >>,
                     response |-> [status |-> 0, report |-> << >>, report_file |-> ""]]]

\* lines 57-79: the checks of the upload; timestamp = int(time.time()); file.save
UploadSave(r) ==
    /\ runs[r].pc = "upload"
    /\ IF ~AllowedFile(runs[r].filename)
         THEN /\ runs' = [runs EXCEPT ![r].response = [status |-> 400, report |-> << >>,
                                                       report_file |-> ""],
                                      ![r].pc = "responded"]
              /\ UNCHANGED disk
         ELSE \E t \in ClockNow :
                /\ runs' = [runs EXCEPT ![r].timestamp = << t >>, ![r].pc = "saved"]
                /\ disk' = [disk EXCEPT !.uploads =
                              Write(@, UploadPath(t, runs[r].filename), runs[r].upload)]
    /\ UNCHANGED run_vars
    /\ UNCHANGED pdf

\* the file of request r in uploads/
SavedPath(r) == UploadPath(runs[r].timestamp[1], runs[r].filename)

\* line 83 and process_video_file lines 73-89: the system is built and
\* cv2.VideoCapture opens what is stored under the path of the request;
\* lines 75-77: return None when it cannot be opened
UploadConstruct(r) ==
    /\ runs[r].pc = "saved"
    /\ IF SavedPath(r) \in DOMAIN disk.uploads /\ disk.uploads[SavedPath(r)].playable
         THEN runs' = [runs EXCEPT ![r].system = NewSystem(r, runs[r].form_model),
                                   ![r].video = disk.uploads[SavedPath(r)].frames,
                                   ![r].frame_analyses = << >>,
                                   ![r].frame_count = 0,
                                   ![r].pc = "read"]
         ELSE runs' = [runs EXCEPT ![r].system = NewSystem(r, runs[r].form_model),
                                   ![r].pc = "none"]
    /\ UNCHANGED << run_vars, disk >>
    /\ UNCHANGED pdf

\* lines 91-97, 110 with a stride that is not zero, or at the end of the video
UploadRead(r) ==
    /\ runs[r].frame_interval # 0 \/ runs[r].frame_count >= Len(runs[r].video)
    /\ RunRead(r)

\* line 97 with frame_interval = 0: frame_count % 0 raises ZeroDivisionError
UploadRaise(r) ==
    /\ runs[r].pc = "read"
    /\ runs[r].frame_interval = 0
    /\ runs[r].frame_count < Len(runs[r].video)
    /\ runs' = [runs EXCEPT ![r].pc = "raised"]
    /\ UNCHANGED << run_vars, disk >>
    /\ UNCHANGED pdf

\* generate_summary lines 361-363: the report calls failed, the error text is returned
UploadSummaryFails(r) ==
    /\ runs[r].pc = "summary"
    /\ ~EmptyBatch(runs[r].frame_analyses)
    /\ \E msg \in ReportFailures :
       \E text \in {PrimaryErrorReport(msg), FallbackErrorReport(msg)} :
          runs' = [runs EXCEPT ![r].summary = text, ![r].pc = "done"]
    /\ UNCHANGED << run_vars, disk >>
    /\ UNCHANGED pdf

\* a handler that stores and returns whatever process_video_file returned
UploadRespondAlways(r) ==
    /\ runs[r].pc \in {"done", "none"}
    /\ disk' = [disk EXCEPT !.reports =
                  Write(@, ReportPath(runs[r].timestamp[1]), runs[r].summary)]
    /\ runs' = [runs EXCEPT ![r].response =
                         [status |-> 200, report |-> runs[r].summary,
                          report_file |-> ReportPath(runs[r].timestamp[1])],
                            ![r].pc = "responded"]
    /\ UNCHANGED run_vars
    /\ UNCHANGED pdf

\* lines 91-108: `if summary:` the report is written and returned, else 500
UploadRespond(r) ==
    /\ runs[r].pc \in {"done", "none"}
    /\ IF runs[r].pc = "done" /\ Truthy(runs[r].summary)
         THEN /\ disk' = [disk EXCEPT !.reports =
                            Write(@, ReportPath(runs[r].timestamp[1]), runs[r].summary)]
              /\ runs' = [runs EXCEPT ![r].response =
                                   [status |-> 200, report |-> runs[r].summary,
                                    report_file |-> ReportPath(runs[r].timestamp[1])],
                                      ![r].pc = "responded"]
         ELSE /\ runs' = [runs EXCEPT ![r].response = [status |-> 500, report |-> << >>,
                                                       report_file |-> ""],
                                      ![r].pc = "responded"]
              /\ UNCHANGED disk
    /\ UNCHANGED run_vars
    /\ UNCHANGED pdf

\* lines 110-114: the except of the handler removes the uploaded file if it is
\* there and answers 500
UploadExcept(r) ==
    /\ runs[r].pc = "raised"
    /\ disk' = [disk EXCEPT !.uploads = Remove(@, SavedPath(r))]
    /\ runs' = [runs EXCEPT ![r].response = [status |-> 500, report |-> << >>,
                                             report_file |-> ""],
                            ![r].pc = "responded"]
    /\ UNCHANGED run_vars
    /\ UNCHANGED pdf

UploadNext ==
    \/ \E r \in Requests : UploadSave(r)
    \/ \E r \in Requests : UploadConstruct(r)
    \/ \E r \in Requests : UploadRead(r)
    \/ \E r \in Requests : UploadRaise(r)
    \/ \E r \in Requests : RunAnalyze(r)
    \/ \E r \in Requests : RunSummary(r)
    \/ \E r \in Requests : UploadSummaryFails(r)
    \/ \E r \in Requests : UploadRespond(r)
    \/ \E r \in Requests : UploadExcept(r)

UploadSpec == UploadInit /\ [][UploadNext]_vars

(***************************************************************************)
(* web_app.download_summary_pdf and pdf_utils.extract_summary_only.  Here  *)
(* a text is a sequence of characters, so that find, slicing and strip     *)
(* work as they do on a Python string.                                     *)
(***************************************************************************)
MaxWords == 2                \* a report body is made of at most MaxWords words
SummaryLimit == 800          \* report_text[:800]
RuleWidth == 60              \* "=" * 60

UpperCase == << "A", "B", "C", "D", "E", "F", "G", "H", "I", "J", "K", "L", "M", "N", "O", "P", "Q", "R", "S", "T", "U", "V", "W", "X", "Y", "Z" >>
LowerCase == << "a", "b", "c", "d", "e", "f", "g", "h", "i", "j", "k", "l", "m", "n", "o", "p", "q", "r", "s", "t", "u", "v", "w", "x", "y", "z" >>

\* str.lower() on one character
LowerChar(c) ==
    IF \E i \in 1..Len(UpperCase) : UpperCase[i] = c
      THEN LowerCase[CHOOSE i \in 1..Len(UpperCase) : UpperCase[i] = c]
      ELSE c

\* str.lower()
LowerText(text) == [i \in 1..Len(text) |-> LowerChar(text[i])]

\* the characters str.strip() removes
Whitespace == {" ", "\n", "\t"}

\* str.strip()
Strip(text) ==
    LET kept == { i \in 1..Len(text) : text[i] \notin Whitespace }
    IN  IF kept = {} THEN << >>
        ELSE SubSeq(text, CHOOSE i \in kept : \A j \in kept : i <= j,
                          CHOOSE i \in kept : \A j \in kept : j <= i)

\* str.find(): the first position of `phrase` in `text`, 0 when there is none
Find(text, phrase) ==
    LET hits == { i \in 1..(Len(text) - Len(phrase) + 1) :
                    SubSeq(text, i, i + Len(phrase) - 1) = phrase }
    IN  IF hits = {} THEN 0 ELSE CHOOSE i \in hits : \A j \in hits : i <= j

\* pdf_utils line 9
Marker == << "e", "x", "e", "c", "u", "t", "i", "v", "e", " ", "s", "u", "m", "m", "a", "r", "y" >>

Unavailable == << "S", "u", "m", "m", "a", "r", "y", " ", "u", "n", "a", "v", "a", "i", "l", "a", "b", "l", "e", "." >>
Dots == << ".", ".", "." >>

\* a slice text[from:] that stops after `limit` characters
FirstChars(text, limit) == SubSeq(text, 1, IF Len(text) < limit THEN Len(text) ELSE limit)

\* pdf_utils.extract_summary_only
extract_summary_only(report_text) ==
    IF report_text = << >> THEN Unavailable
    ELSE LET lower == LowerText(report_text)
             start_idx == Find(lower, Marker)
         IN  IF start_idx # 0
               THEN Strip(SubSeq(report_text, start_idx, Len(report_text)))
               ELSE Strip(FirstChars(report_text, SummaryLimit))
                      \o (IF Len(report_text) > SummaryLimit THEN Dots ELSE << >>)

\* the words a model may write into a report body
BodyWords == { << "R", "u", "n", ".", " " >>,
               << "E", "x", "e", "c", "u", "t", "i", "v", "e", " ", "S", "u", "m", "m", "a", "r", "y", ":", " " >>,
               << "J", "u", "m", "p", ".", "\n" >> }

\* the texts a digest call may return
DigestWords == { << "S", "h", "o", "r", "t", "." >>, << "W", "a", "l", "k" >> }

RECURSIVE Concat(_)
Concat(words) == IF words = << >> THEN << >> ELSE Head(words) \o Concat(Tail(words))

\* the report bodies: up to MaxWords words
Bodies == { Concat(ws) : ws \in UNION { [1..n -> BodyWords] : n \in 0..MaxWords } }

\* "=" * 60
RuleChars == [i \in 1..RuleWidth |-> "="]

HeadingChars == << "E", "X", "E", "C", "U", "T", "I", "V", "E", " ", "S", "U", "M", "M", "A", "R", "Y", "\n" >>
PlaceholderChars == << "S", "u", "m", "m", "a", "r", "y", " ", "g", "e", "n", "e", "r", "a", "t", "i", "o", "n", " ", "u", "n", "a", "v", "a", "i", "l", "a", "b", "l", "e", ".", " ", "P", "l", "e", "a", "s", "e", " ", "r", "e", "f", "e", "r", " ", "t", "o", " ", "t", "h", "e", " ", "d", "e", "t", "a", "i", "l", "e", "d", " ", "r", "e", "p", "o", "r", "t", " ", "a", "b", "o", "v", "e", "." >>
SentinelChars == << "N", "o", " ", "f", "r", "a", "m", "e", "s", " ", "w", "e", "r", "e", " ", "a", "n", "a", "l", "y", "z", "e", "d", "." >>
ErrorChars == << "E", "r", "r", "o", "r", " ", "g", "e", "n", "e", "r", "a", "t", "i", "n", "g", " ", "s", "u", "m", "m", "a", "r", "y", ":", " ", "r", "a", "t", "e", " ", "l", "i", "m", "i", "t" >>

\* generate_summary lines 253-258 (and 269-273 with the placeholder): what is
\* appended to the report body, character by character
SectionChars(final_summary) ==
    << "\n", "\n" >> \o RuleChars \o << "\n" >>
       \o HeadingChars
       \o RuleChars \o << "\n", "\n" >>
       \o final_summary
       \o << "\n", "\n" >> \o RuleChars \o << "\n" >>

\* a report of generate_summary that ended in DONE
DoneReport(body, final_summary) == body \o SectionChars(final_summary)

\* texts without the marker around the limit of 800 characters
LongTexts ==
    { [i \in 1..n |-> "x"] \o tail : n \in {SummaryLimit - 1, SummaryLimit, SummaryLimit + 1},
                                     tail \in {<< >>, << " " >>} }

\* the stored reports a summary is requested for, with how they were made
StoredReports ==
    { [kind |-> "done", body |-> b, final_summary |-> d, text |-> DoneReport(b, d)] :
          b \in Bodies, d \in DigestWords \cup {PlaceholderChars} }
    \cup { [kind |-> "plain", body |-> t, final_summary |-> << >>, text |-> t] :
          t \in Bodies \cup LongTexts \cup {SentinelChars, ErrorChars} }

ReportFile == "video_report_0.txt"

PdfInit ==
    /\ mode = "file"
    /\ frame_interval = 1
    /\ source_frames = 0
    /\ opens = FALSE
    /\ fps = 0
    /\ total_frames = 0
    /\ duration_seconds = 0
    /\ pc = "open"
    /\ frame_count = 0
    /\ analyzed_count = 0
    /\ frame_analyses = << >>
    /\ now = 0
    /\ elapsed = << >>
    /\ sleeps = 0
    /\ frame_error = << >>
    /\ q_pending = FALSE
    /\ in_flight = 0
    /\ calls = << >>
    /\ summary_prompt = << >>
    /\ digest_prompt = << >>
    /\ summary = << >>
    /\ error_msg = << >>
    /\ result = Pending
    /\ runs = << >>
    /\ \/ \E stored \in StoredReports :
            /\ disk = [uploads |-> << >>, reports |-> (ReportFile :> stored.text)]
            /\ pdf = [pc |-> "request", stored |-> stored, report_text |-> << >>,
                      summary |-> << >>, status |-> 0]
       \/ /\ disk = [uploads |-> << >>, reports |-> << >>]
          /\ pdf = [pc |-> "request",
                    stored |-> [kind |-> "none", body |-> << >>, final_summary |-> << >>,
                                text |-> << >>],
                    report_text |-> << >>, summary |-> << >>, status |-> 0]

pdf_other_vars == << run_vars, runs, disk >>

\* download_summary_pdf lines 152-157: 404 when the report is not there, else
\* the file is read
PdfRead ==
    /\ pdf.pc = "request"
    /\ IF ReportFile \in DOMAIN disk.reports
         THEN pdf' = [pdf EXCEPT !.report_text = disk.reports[ReportFile], !.pc = "read"]
         ELSE pdf' = [pdf EXCEPT !.status = 404, !.pc = "responded"]
    /\ UNCHANGED pdf_other_vars

\* line 158: summary = extract_summary_only(report_text)
PdfExtract ==
    /\ pdf.pc = "read"
    /\ pdf' = [pdf EXCEPT !.summary = extract_summary_only(pdf.report_text),
                          !.pc = "extracted"]
    /\ UNCHANGED pdf_other_vars

\* lines 159-165: the PDF is built from the summary and sent
PdfRespond ==
    /\ pdf.pc = "extracted"
    /\ pdf' = [pdf EXCEPT !.status = 200, !.pc = "responded"]
    /\ UNCHANGED pdf_other_vars

PdfNext ==
    \/ PdfRead
    \/ PdfExtract
    \/ PdfRespond

PdfSpec == PdfInit /\ [][PdfNext]_vars

(***************************************************************************)
(* Properties.                                                             *)
(***************************************************************************)
InLoop == pc \in {"open", "read", "analyze", "analyze_except", "sleep"}

Ceil(a, b) == (a + b - 1) \div b

\* the multiples of n below f: {0, n, 2n, ...} /\ [0, f)
Multiples(n, f) == { m \in 0..(f - 1) : \E k \in 0..f : m = k * n }

BatchFrames == { frame_analyses[i].frame : i \in 1..Len(frame_analyses) }

CallsOf(kind, model) ==
    { i \in 1..Len(calls) : calls[i].kind = kind /\ calls[i].model = model }

CallsOfKind(kind) == { i \in 1..Len(calls) : calls[i].kind = kind }

\* C1: in file mode, for every stride N >= 1 and a source of F frames, the frames
\* submitted to analyze_frame are exactly the multiples of N below F, so the
\* batch handed to generate_summary has exactly ceil(F / N) entries.
C1_FileStride ==
    mode = "file" =>
        /\ BatchFrames \subseteq Multiples(frame_interval, source_frames)
        /\ (opens /\ ~InLoop) =>
              /\ BatchFrames = Multiples(frame_interval, source_frames)
              /\ Len(frame_analyses) = Ceil(source_frames, frame_interval)
              /\ Cardinality(CallsOfKind("frame")) = Ceil(source_frames, frame_interval)

\* C1 witness: 3 frames at stride 2 reach generate_summary with frames 0 and 2
C1_Witness ==
    /\ mode = "file"
    /\ pc = "generate_summary"
    /\ source_frames = 3
    /\ frame_interval = 2
    /\ Len(frame_analyses) = 2
    /\ frame_analyses[1].frame = 0
    /\ frame_analyses[2].frame = 2

\* the tag generate_summary gives an entry: its frame index and its timestamp
TagOf(fa) == "[Frame " \o ToString(fa.frame) \o " at " \o FormatTime(fa.time) \o "s]: "

BatchTags == { TagOf(frame_analyses[i]) : i \in 1..Len(frame_analyses) }

IsTag(token) == token \in BatchTags

\* the positions of the tags in the prompt of the report call
TagPositions == { p \in 1..Len(summary_prompt) : IsTag(summary_prompt[p]) }

StrictlyIncreasing ==
    \A i, j \in 1..Len(frame_analyses) :
        i < j => frame_analyses[i].frame < frame_analyses[j].frame

\* the prompt of the report call just issued holds one tag per entry, in batch
\* order, each followed by the text of that entry
PromptListsBatch ==
    pc = "primary_report" =>
        /\ SelectSeq(summary_prompt, IsTag)
             = [i \in 1..Len(frame_analyses) |-> TagOf(frame_analyses[i])]
        /\ \A i \in 1..Len(frame_analyses) :
              \E p \in TagPositions :
                  /\ summary_prompt[p] = TagOf(frame_analyses[i])
                  /\ Cardinality({ q \in TagPositions : q < p }) = i - 1
                  /\ SubSeq(summary_prompt, p + 1, p + Len(frame_analyses[i].analysis))
                       = frame_analyses[i].analysis

AppendOnly ==
    /\ Len(frame_analyses') >= Len(frame_analyses)
    /\ SubSeq(frame_analyses', 1, Len(frame_analyses)) = frame_analyses
    /\ summary_prompt # << >> => summary_prompt' = summary_prompt

\* C2: in both modes the batch is append-only and strictly increasing in frame
\* index at every point of a run, and the combined text of generate_summary lists
\* the entries, each tagged with its frame index and timestamp, in batch order.
C2_BatchOrder ==
    /\ [](StrictlyIncreasing /\ PromptListsBatch)
    /\ [][AppendOnly]_vars

\* C2 witness: a report call was issued for a batch of three entries
C2_Witness ==
    /\ pc = "primary_report"
    /\ Len(frame_analyses) = 3
    /\ Len(summary_prompt) > 3

\* C3: generate_summary called with an empty batch returns the sentinel report
\* and issues no inference call, for a report or a digest, to either model.
C3_EmptyBatchSentinel ==
    [][ (pc = "generate_summary" /\ frame_analyses = << >>) =>
            /\ pc' = "done"
            /\ result' = ReturnText(<< "No frames were analyzed." >>)
            /\ calls' = calls
            /\ CallsOfKind("report") = {}
            /\ CallsOfKind("digest") = {} ]_vars

\* C3 witness: generate_summary returned the sentinel for an empty batch
C3_Witness ==
    /\ pc = "done"
    /\ opens
    /\ frame_analyses = << >>
    /\ result.kind = "text"
    /\ result.text = << Sentinel >>
    /\ calls = << >>

PrimaryPrefix == "Error generating summary: "
AltPrefix == "Error generating summary with alternative model: "

\* the report is error-flagged (aggregation ended in FAILED)
ErrorFlagged ==
    /\ result.kind = "text"
    /\ result.text # << >>
    /\ result.text[1] \in {PrimaryPrefix, AltPrefix}

\* the report has the shape of a DONE report: a body, then the EXECUTIVE SUMMARY
\* section closed by a rule
DoneShaped ==
    /\ result.kind = "text"
    /\ ~ErrorFlagged
    /\ \E p \in 1..Len(result.text) : result.text[p] = "EXECUTIVE SUMMARY\n"
    /\ result.text[Len(result.text)] = Rule

\* the primary report call failed with a decommissioned-style message
PrimaryRejected ==
    /\ error_msg # << >>
    /\ \/ \E i \in 1..Len(error_msg) : error_msg[i] = "Decommissioned"
       \/ \E i \in 1..Len(error_msg) :
             /\ i + 2 <= Len(error_msg)
             /\ << error_msg[i], error_msg[i + 1], error_msg[i + 2] >> = << "No", "Longer", "Supported" >>

\* the body of a report text: the tokens before the first rule
Body(text) ==
    LET rules == { p \in 1..Len(text) : text[p] = Rule }
    IN  IF rules = {} THEN text
        ELSE SubSeq(text, 1, (CHOOSE p \in rules : \A q \in rules : p <= q) - 1)

\* tokens that stem from the primary model or from its failure
PrimaryTrace ==
    { error_msg[i] : i \in 1..Len(error_msg) }
        \cup { Chunk(DefaultModel, i) : i \in 1..(MaxChunks + 1) }
        \cup { Digest(DefaultModel), PrimaryPrefix, AltPrefix, DefaultModel }

\* C4: after a decommissioned-style failure of the primary report call exactly one
\* retry of the report call is issued, against the fixed fallback model; if that
\* call succeeds the aggregation ends in DONE with a body that holds the fallback
\* model's output only and no text of the primary failure.
C4_FallbackRetry ==
    PrimaryRejected =>
        /\ Cardinality(CallsOf("report", "llama-3.1-70b-versatile")) = 1
        /\ Cardinality(CallsOfKind("report")) = 2
        /\ (pc = "done" /\ CallsOf("digest", "llama-3.1-70b-versatile") # {}) =>
              /\ DoneShaped
              /\ \A i \in 1..Len(result.text) : result.text[i] \notin PrimaryTrace
              /\ Body(result.text)
                   = [i \in 1..Len(Body(result.text)) |->
                         "llama-3.1-70b-versatile report chunk " \o ToString(i)]

\* C4 witness: the primary stream broke after a chunk as no longer supported and
\* the fallback model delivered the report and its digest
C4_Witness ==
    /\ pc = "done"
    /\ error_msg = << DefaultModel, "No", "Longer", "Supported" >>
    /\ CallsOf("digest", alt_model) # {}
    /\ Len(result.text) > 1
    /\ result.text[1] = Chunk(alt_model, 1)
    /\ \E p \in 1..Len(result.text) : result.text[p] = Digest(alt_model)

InDigest == pc \in {"primary_digest", "fallback_digest"}

DigestTexts == { Digest(DefaultModel), Digest(alt_model) }

HasDigest(text) == \E p \in 1..Len(text) : text[p] \in DigestTexts

PlaceholderSection ==
    << Rule, "EXECUTIVE SUMMARY\n", "====\n\n",
       "Summary generation unavailable. Please refer to the detailed report above.",
       Rule >>

EndsWith(text, tail) ==
    /\ Len(text) >= Len(tail)
    /\ SubSeq(text, Len(text) - Len(tail) + 1, Len(text)) = tail

\* C5: when the digest call fails after a successful report call, on either
\* path, generate_summary returns the complete report body followed by an
\* EXECUTIVE SUMMARY section with the placeholder; the result is not
\* error-flagged and no further call (fallback model, second digest) is made.
C5_DigestFailure ==
    [][ InDigest =>
          /\ pc' = "done"
          /\ calls' = calls
          /\ result'.kind = "text"
          /\ SubSeq(result'.text, 1, Len(summary)) = summary
          /\ ~HasDigest(result'.text) =>
                /\ EndsWith(result'.text, PlaceholderSection)
                /\ result'.text[1] \notin {PrimaryPrefix, AltPrefix}
                /\ Body(result'.text) = summary ]_vars

\* C5 witness: a report of one chunk was returned with the placeholder section
C5_Witness ==
    /\ pc = "done"
    /\ result.kind = "text"
    /\ Len(result.text) > 1
    /\ result.text[1] = Chunk(alt_model, 1)
    /\ ~HasDigest(result.text)
    /\ EndsWith(result.text, PlaceholderSection)

InFallbackReport == pc \in {"fallback_report", "fallback_stream"}

\* C6: when the primary report call fails as decommissioned and the fallback
\* report call fails too, generate_summary returns a non-empty error-flagged
\* report that carries the message of the fallback failure; no report is empty.
C6_FallbackFailure ==
    /\ [][ (InFallbackReport /\ pc' = "done") =>
              /\ PrimaryRejected
              /\ result'.kind = "text"
              /\ Len(result'.text) > 1
              /\ result'.text[1] = AltPrefix
              /\ Tail(result'.text) \in ReportErrors("llama-3.1-70b-versatile") ]_vars
    /\ []((pc = "done" /\ result.kind = "text") => result.text # << >>)

\* C6 witness: both report calls failed and the error report was returned
C6_Witness ==
    /\ pc = "done"
    /\ PrimaryRejected
    /\ result.kind = "text"
    /\ result.text = << AltPrefix, "rate", "limit" >>

\* generate_summary ran on a non-empty batch and returned
AggregationEnded ==
    /\ pc = "done"
    /\ result.kind = "text"
    /\ frame_analyses # << >>

\* C7 (as claimed): for a non-empty batch the aggregation ends in FAILED only
\* when both the primary and the fallback report call were attempted and failed:
\* a primary failure of any other kind than decommission also triggers the
\* fallback retry, and in every other case DONE is reached.
C7_FailedOnlyAfterBoth ==
    AggregationEnded =>
        /\ ErrorFlagged =>
              /\ CallsOf("report", DefaultModel) # {}
              /\ CallsOf("report", alt_model) # {}
        /\ ~ErrorFlagged => DoneShaped

\* C7 (amended): for a non-empty batch the aggregation ends in FAILED exactly when
\* the primary report call failed for a reason other than decommission, in which
\* case no fallback call is made and the report carries the primary error, or
\* when it failed as decommissioned and the one fallback report call failed too;
\* in every other case DONE is reached.
C7_FailedCases ==
    AggregationEnded =>
        /\ (result.text[1] = PrimaryPrefix) <=> (error_msg # << >> /\ ~PrimaryRejected)
        /\ (result.text[1] = PrimaryPrefix) =>
              /\ CallsOf("report", alt_model) = {}
              /\ CallsOfKind("digest") = {}
              /\ result.text = << PrimaryPrefix >> \o error_msg
        /\ (result.text[1] = AltPrefix) <=>
              (PrimaryRejected /\ CallsOf("digest", alt_model) = {})
        /\ (result.text[1] = AltPrefix) =>
              /\ Cardinality(CallsOf("report", alt_model)) = 1
              /\ Cardinality(CallsOf("report", DefaultModel)) = 1
        /\ ~ErrorFlagged => DoneShaped
        /\ (error_msg = << >> \/ CallsOf("digest", alt_model) # {}) => DoneShaped

\* C7 witness: the primary report call failed on a rate limit and the run ended
\* FAILED without a call to the fallback model
C7_Witness ==
    /\ AggregationEnded
    /\ result.text = << PrimaryPrefix, "rate", "limit" >>
    /\ CallsOf("report", alt_model) = {}

\* C8 (as claimed): whatever the source and the inference calls do, the driver
\* returns and no exception escapes it; a run whose source opened returns a
\* non-empty report text.
C8_NoExceptionEscapes ==
    pc = "done" =>
        /\ result.kind # "raised"
        /\ opens => (result.kind = "text" /\ result.text # << >>)

\* C9 (as claimed): in both modes a run whose source opened and that analyzed no
\* frame ends with the sentinel report, without any inference call.
C9_NoFrameSentinel ==
    (pc = "done" /\ opens /\ frame_analyses = << >>) =>
        /\ result = ReturnText(<< "No frames were analyzed." >>)
        /\ calls = << >>

\* C10: a source that cannot be opened ends the run at once: no frame is read,
\* no inference call is issued, generate_summary is not called, and the driver
\* returns None.
C10_OpenFailure ==
    ~opens =>
        /\ pc \in {"open", "done"}
        /\ frame_count = 0
        /\ frame_analyses = << >>
        /\ calls = << >>
        /\ summary_prompt = << >>
        /\ pc = "done" => (result.kind = "none" /\ result.text = << >>)

\* C10 witness: a run on a source that did not open has returned
C10_Witness ==
    /\ ~opens
    /\ pc = "done"
    /\ result.kind = "none"

ErrorMarkers == { "Error: Model '", "Error analyzing frame: " }

\* the exception text speaks of vision or of an image, in any case
VisionLike(msg) ==
    \E i \in 1..Len(msg) :
        msg[i] \in { "vision", "Vision", "VISION", "image", "Image", "IMAGE" }

LastAnalysis(batch) == batch[Len(batch)].analysis

\* C11: analyze_frame never raises on a failure of the remote call: the exception
\* becomes a returned text that begins with the marker 'Error'; when the exception
\* text holds 'vision' or 'image' in any case the text names a vision-capable
\* model, otherwise it carries the original message.
C11_AnalyzeNeverRaises ==
    /\ [][ pc = "analyze" =>
              /\ pc' \in {"analyze", "analyze_except", "sleep"}
              /\ result' = result ]_vars
    /\ [][ (pc = "analyze_except" /\ pc' # pc) =>
              /\ pc' = "sleep"
              /\ result' = result
              /\ frame_analyses' # << >>
              /\ LastAnalysis(frame_analyses')[1] \in ErrorMarkers
              /\ VisionLike(frame_error) =>
                    LastAnalysis(frame_analyses')
                      = << "Error: Model '", "meta-llama/llama-4-scout-17b-16e-instruct",
                           "' may not support vision. Try using --model llama-3.2-11b-vision-preview" >>
              /\ ~VisionLike(frame_error) =>
                    LastAnalysis(frame_analyses')
                      = << "Error analyzing frame: " >> \o frame_error ]_vars

\* C11 witness: a failed call was answered with the hint at a vision model
C11_Witness ==
    /\ pc = "sleep"
    /\ frame_analyses # << >>
    /\ LastAnalysis(frame_analyses)[1] = "Error: Model '"

AllEntriesFailed ==
    \A i \in 1..Len(frame_analyses) : frame_analyses[i].analysis[1] \in ErrorMarkers

\* C12: a failed frame analysis never aborts or shortens a run: the batch has one
\* entry per eligible index visited before the stop, a failed frame is recorded
\* as error text in its own entry, and a non-empty batch, partial or made of
\* error texts only, is handed to generate_summary, which issues the report call.
C12_FailuresKeepRun ==
    /\ [](Len(frame_analyses)
            = Cardinality(Multiples(frame_interval, frame_count))
                + (IF pc = "sleep" THEN 1 ELSE 0))
    /\ [][ (pc = "analyze" \/ pc = "analyze_except") =>
              /\ pc' \in {"analyze", "analyze_except", "sleep"}
              /\ result' = result ]_vars
    /\ [][ (pc = "analyze_except" /\ pc' # pc) =>
              /\ Len(frame_analyses') = Len(frame_analyses) + 1
              /\ SubSeq(frame_analyses', 1, Len(frame_analyses)) = frame_analyses
              /\ frame_analyses'[Len(frame_analyses')].frame = frame_count
              /\ LastAnalysis(frame_analyses')[1] \in ErrorMarkers ]_vars
    /\ [][ (pc = "generate_summary" /\ frame_analyses # << >>) =>
              /\ pc' = "primary_report"
              /\ Len(calls') = Len(calls) + 1
              /\ calls'[Len(calls')].kind = "report" ]_vars

\* C12 witness: a live run stopped before its source ended, every analysis of it
\* failed, and the report call was issued for the two error entries
C12_Witness ==
    /\ mode = "live"
    /\ pc = "primary_report"
    /\ frame_count < source_frames
    /\ Len(frame_analyses) = 2
    /\ AllEntriesFailed

\* the frame calls issued so far whose entry is not yet in the batch
FrameCallPending == IF pc \in {"analyze", "analyze_except"} THEN 1 ELSE 0

\* C13: in live mode the 'q' key and the time budget are examined only at the
\* top of an iteration, right after a frame was read: the frame loop is left
\* from there and from nowhere else, a pending 'q' is honoured at that test,
\* and a 'q' pressed while an analysis call or its pacing delay runs neither
\* moves the run nor touches the batch: the call returns, its entry is
\* appended, and every frame call issued has its entry when the loop is left
C13_CooperativeCancel ==
    /\ [](mode = "live" =>
            Len(frame_analyses) + FrameCallPending = Cardinality(CallsOfKind("frame")))
    /\ [][ (mode = "live" /\ pc # "release" /\ pc' = "release") => pc = "read" ]_vars
    /\ [][ (mode = "live" /\ pc = "read" /\ q_pending) => pc' = "release" ]_vars
    /\ [][ (~q_pending /\ q_pending') =>
              /\ pc' = pc
              /\ frame_analyses' = frame_analyses
              /\ calls' = calls ]_vars
    /\ [][ (mode = "live" /\ q_pending /\ pc = "analyze") =>
              /\ pc' \in {"analyze", "analyze_except", "sleep"}
              /\ pc' = "sleep" =>
                    /\ Len(frame_analyses') = Len(frame_analyses) + 1
                    /\ frame_analyses'[Len(frame_analyses')].frame = frame_count ]_vars
    /\ [][ (mode = "live" /\ q_pending /\ pc = "sleep") =>
              /\ pc' = "read"
              /\ frame_analyses' = frame_analyses ]_vars

\* a live run stopped by 'q' within its budget, after the first frame's call
\* returned and its entry was appended
C13_Witness ==
    /\ mode = "live"
    /\ pc = "release"
    /\ q_pending
    /\ elapsed # << >>
    /\ elapsed[1] < Budget
    /\ frame_interval = 1
    /\ frame_count = 1
    /\ Len(frame_analyses) = 1

\* the longest time in a set of tick counts
MaxOf(S) == CHOOSE m \in S : \A x \in S : x <= m

\* the longest a frame read, an analysis call and a pacing delay take together
OneIteration == MaxOf(ReadTicks) + MaxOf(CallTicks) + PacingDelay

\* the read step of a live run whose source delivers a frame and whose 'q' key
\* was not pressed
LiveReadNoCancel ==
    /\ mode = "live"
    /\ pc = "read"
    /\ pc' # "done"
    /\ ~q_pending
    /\ frame_count < source_frames
    /\ elapsed' # elapsed \/ frame_count' # frame_count \/ pc' # pc

\* C14: a live run whose source keeps delivering and that is not cancelled
\* leaves the frame loop at the first iteration whose elapsed time has reached
\* duration_seconds and at no earlier one, and the elapsed time at exit is
\* over the budget by at most one frame read, one analysis call and one pacing
\* delay
C14_BudgetExit ==
    /\ [][ LiveReadNoCancel =>
              /\ elapsed' # << >>
              /\ pc' = "release" <=> elapsed'[1] >= duration_seconds * TicksPerSecond
              /\ elapsed # << >> =>
                    /\ elapsed[1] < duration_seconds * TicksPerSecond
                    /\ elapsed'[1] - elapsed[1] <= OneIteration
              /\ elapsed = << >> => elapsed'[1] <= MaxOf(ReadTicks) ]_vars
    /\ []((mode = "live" /\ pc = "release" /\ ~q_pending /\ frame_count < source_frames) =>
            /\ elapsed # << >>
            /\ elapsed[1] >= duration_seconds * TicksPerSecond
            /\ elapsed[1] - duration_seconds * TicksPerSecond <= OneIteration)

\* a one-second live run that leaves the loop a full read, call and delay
\* after its last test below the budget
C14_Witness ==
    /\ mode = "live"
    /\ pc = "release"
    /\ ~q_pending
    /\ frame_count < source_frames
    /\ duration_seconds = 1
    /\ Len(frame_analyses) = 1
    /\ elapsed = << duration_seconds * TicksPerSecond + OneIteration - 1 >>

\* the step issues a frame-analysis call
FrameCallIssued ==
    /\ Len(calls') = Len(calls) + 1
    /\ calls'[Len(calls')].kind = "frame"

\* C15: in both modes every analyzed frame is followed by exactly one pacing
\* delay before the next read and a skipped frame by none: the delays made so
\* far are the batch entries whose delay is not still due, a delay is made
\* only right after an entry was appended and leads to the next read, a frame
\* that is skipped at the read makes none, and a frame call is issued only
\* when every earlier call has had its delay
C15_PacingDelay ==
    /\ [](sleeps = Len(frame_analyses) - (IF pc = "sleep" THEN 1 ELSE 0))
    /\ [](~InLoop => sleeps = Len(frame_analyses))
    /\ [][ sleeps' # sleeps =>
              /\ pc = "sleep"
              /\ pc' = "read"
              /\ sleeps' = sleeps + 1
              /\ frame_analyses # << >>
              /\ frame_analyses[Len(frame_analyses)].frame = frame_count
              /\ frame_count' = frame_count + 1 ]_vars
    /\ [][ (pc = "sleep" /\ pc' # pc) => sleeps' # sleeps ]_vars
    /\ [][ (pc = "read" /\ frame_count' # frame_count) =>
              /\ ~Eligible(frame_count, frame_interval)
              /\ sleeps' = sleeps
              /\ now' - now <= MaxOf(ReadTicks) ]_vars
    /\ [][ FrameCallIssued => sleeps = Cardinality(CallsOfKind("frame")) ]_vars

\* a file run with stride 2 over three frames: frames 0 and 2 analyzed and
\* paced, frame 1 skipped
C15_Witness ==
    /\ mode = "file"
    /\ pc = "done"
    /\ frame_interval = 2
    /\ frame_count = 3
    /\ Len(frame_analyses) = 2
    /\ sleeps = 2

\* the positions of the run at which a request has been sent and has neither
\* returned nor raised
AwaitingCall ==
    pc \in {"analyze", "primary_report", "primary_stream", "primary_digest",
            "fallback_report", "fallback_stream", "fallback_digest"}

\* the step issues a call of the given kind
Issued(kind) ==
    /\ Len(calls') = Len(calls) + 1
    /\ calls'[Len(calls')].kind = kind

\* C16: within a run at most one inference call is in flight: one is in
\* flight exactly while the run waits for it, none when a frame is read, a
\* frame call is issued only with none in flight, the report call only after
\* the frame loop has ended (no frame call follows a report call), and a
\* digest call only when the stream of the preceding report call has ended
C16_OneCallInFlight ==
    /\ [](in_flight \in {0, 1})
    /\ [](in_flight = 1 <=> AwaitingCall)
    /\ []((pc = "read" \/ pc = "sleep" \/ pc = "release") => in_flight = 0)
    /\ [](\A i \in 1..Len(calls) : \A j \in 1..Len(calls) :
            (i < j /\ calls[i].kind # "frame") => calls[j].kind # "frame")
    /\ [](\A j \in CallsOfKind("digest") : j > 1 /\ calls[j - 1].kind = "report")
    /\ [](CallsOfKind("report") # {} => ~InLoop /\ pc # "release")
    /\ [][ Issued("frame") => (pc = "read" /\ in_flight = 0 /\ pc' = "analyze") ]_vars
    /\ [][ Issued("report") =>
              \/ pc = "generate_summary" /\ in_flight = 0
              \/ pc \in {"primary_report", "primary_stream"} /\ in_flight' = 1 ]_vars
    /\ [][ Issued("digest") =>
              /\ pc \in {"primary_stream", "fallback_stream"}
              /\ in_flight' = 1 ]_vars

\* two frames analyzed one after the other, then the report, then the digest
\* still in flight
C16_Witness ==
    /\ pc = "primary_digest"
    /\ in_flight = 1
    /\ Len(calls) = 4
    /\ Cardinality(CallsOfKind("frame")) = 2

\* the calls addressed to the fallback model
FallbackCalls == { i \in 1..Len(calls) : calls[i].model = alt_model }

\* the step issues a call addressed to the fallback model
FallbackIssued ==
    /\ Len(calls') = Len(calls) + 1
    /\ calls'[Len(calls')].model = alt_model

QuotedReport(prompt) == SubSeq(prompt, 2, Len(prompt) - 1)

\* the text is what `model` streamed, chunk by chunk
StreamedBy(text, model) == \A p \in 1..Len(text) : text[p] = Chunk(model, p)

\* C18: a digest request is issued only when the stream of a report call has
\* ended without an error; it is addressed to the model of that report call,
\* the call just before it, and the report quoted in its prompt is exactly the
\* text that model streamed
C18_DigestSameModel ==
    /\ [](\A j \in CallsOfKind("digest") :
            /\ j > 1
            /\ calls[j - 1].kind = "report"
            /\ calls[j - 1].model = calls[j].model)
    /\ [][ Issued("digest") =>
              /\ pc \in {"primary_stream", "fallback_stream"}
              /\ pc = "primary_stream" => calls'[Len(calls')].model = DefaultModel
              /\ pc = "fallback_stream" => calls'[Len(calls')].model = alt_model
              /\ calls[Len(calls)] = Call("report", calls'[Len(calls')].model, << >>)
              /\ summary' = summary
              /\ StreamedBy(summary, calls'[Len(calls')].model)
              /\ Len(digest_prompt') = Len(summary) + 2
              /\ QuotedReport(digest_prompt') = summary ]_vars
    /\ [](InDigest =>
            /\ calls[Len(calls)].kind = "digest"
            /\ StreamedBy(summary, calls[Len(calls)].model)
            /\ QuotedReport(digest_prompt) = summary)
    /\ [][ (pc \in {"primary_stream", "fallback_stream"} /\ error_msg' # error_msg) =>
              ~Issued("digest") ]_vars
    /\ [][ (pc = "fallback_stream" /\ pc' = "done") => calls' = calls ]_vars

\* the fallback model streamed a chunk and its digest request is in flight
C18_Witness ==
    /\ pc = "fallback_digest"
    /\ summary = << Chunk(alt_model, 1) >>
    /\ calls[Len(calls)] = Call("digest", alt_model, << >>)
    /\ QuotedReport(digest_prompt) = << Chunk(alt_model, 1) >>

\* C19: every aggregation ends, in DONE or FAILED, with no retry loop:
\* generate_summary issues at most one report call and at most one digest call
\* per model (so at most two of each), a digest call is the last call of the
\* run whatever its outcome, and every run over a finite source, once
\* generate_summary is entered and from the start in file mode, eventually
\* returns
C19_AggregationTerminates ==
    /\ [](\A m \in {DefaultModel, alt_model} :
            /\ Cardinality(CallsOf("report", m)) <= 1
            /\ Cardinality(CallsOf("digest", m)) <= 1)
    /\ [](Cardinality(CallsOfKind("report")) <= 2 /\ Cardinality(CallsOfKind("digest")) <= 2)
    /\ [][ (InDigest /\ pc' # pc) =>
              /\ pc' = "done"
              /\ calls' = calls
              /\ result'.kind = "text" ]_vars
    /\ [][ pc = "done" => UNCHANGED vars ]_vars
    /\ (pc = "generate_summary") ~> (pc = "done")
    /\ (mode = "file") => <>(pc = "done" /\ result # Pending)

\* a file run that used both models for the report, whose one digest call
\* failed and was not repeated
C19_Witness ==
    /\ mode = "file"
    /\ pc = "done"
    /\ Cardinality(CallsOfKind("report")) = 2
    /\ Cardinality(CallsOfKind("digest")) = 1
    /\ result.kind = "text"
    /\ \E p \in 1..Len(result.text) : result.text[p] = Placeholder

\* the batch a run builds on its own from frames n .. upto-1 of its video, given
\* the outcomes of its analysis calls in order
RECURSIVE SoloBatch(_, _, _, _, _, _)
SoloBatch(video, interval, model, outcomes, n, upto) ==
    IF n >= upto \/ n >= Len(video) THEN << >>
    ELSE IF Eligible(n, interval)
      THEN IF outcomes = << >> THEN << >>
           ELSE << RunEntry(model, video, n, Head(outcomes)) >>
                    \o SoloBatch(video, interval, model, Tail(outcomes), n + 1, upto)
      ELSE SoloBatch(video, interval, model, outcomes, n + 1, upto)

\* what request r builds when it is served alone, up to the frame it has reached
AloneBatch(r) ==
    SoloBatch(runs[r].video, runs[r].frame_interval,
              IF runs[r].form_model = "" THEN DefaultModel ELSE runs[r].form_model,
              runs[r].outcomes, 0, runs[r].frame_count)

\* C20: two runs served in parallel share no mutable state: once built, the
\* client and the model identity of a run are its own (the model its request
\* named, or the default), a step of one run changes nothing of the other
\* run, the batch of a run holds at every moment exactly the entries the run
\* builds alone from its own video and the outcomes of its own calls, and its
\* report is the one it produces alone from that batch
C20_RunsShareNothing ==
    /\ [](\A r \in Requests : runs[r].pc # "request" =>
            /\ runs[r].system.client = "Groq client of " \o r
            /\ runs[r].system.model =
                  (IF runs[r].form_model = "" THEN DefaultModel ELSE runs[r].form_model)
            /\ \A s \in Requests \ {r} : runs[s].system.client # runs[r].system.client)
    /\ [][ \A r \in Requests : runs'[r] # runs[r] =>
              \A s \in Requests \ {r} : runs'[s] = runs[s] ]_vars
    /\ [](\A r \in Requests : runs[r].frame_analyses = AloneBatch(r))
    /\ [](\A r \in Requests : runs[r].pc = "done" =>
            /\ runs[r].frame_count = Len(runs[r].video)
            /\ runs[r].summary =
                  RunReport(runs[r].system.model, AloneBatch(r), Len(runs[r].video)))

\* request a has returned a report on two entries, one of them an error text,
\* while request b, with the other model, is waiting for its second call
C20_Witness ==
    /\ runs["request a"].pc = "done"
    /\ Len(runs["request a"].frame_analyses) = 2
    /\ runs["request a"].outcomes = << << >>, <<"rate", "limit">> >>
    /\ runs["request b"].pc = "analyze"
    /\ Len(runs["request b"].frame_analyses) = 1
    /\ runs["request b"].system.model # runs["request a"].system.model

\* request r has saved its upload
Saved(r) == runs[r].timestamp # << >>

\* request r was answered with success
Succeeded(r) == runs[r].pc = "responded" /\ runs[r].response.status = 200

\* C21 (as claimed): two distinct upload requests, however their steps
\* interleave, never store their uploaded video under the same path nor their
\* report under the same path, and the report stored for a request that was
\* answered with success stays the report of that request
C21_DistinctFiles ==
    \A r \in Requests : \A s \in Requests \ {r} :
        /\ (Saved(r) /\ Saved(s)) => SavedPath(r) # SavedPath(s)
        /\ (Succeeded(r) /\ Succeeded(s)) =>
              runs[r].response.report_file # runs[s].response.report_file
        /\ Succeeded(r) =>
              disk.reports[runs[r].response.report_file] = runs[r].response.report

\* the summary of the request has been extracted
Extracted == pdf.pc \in {"extracted", "responded"} /\ pdf.status # 404

\* the text holds the phrase, whatever the case of its letters
HasMarker(text) == Find(LowerText(text), Marker) # 0

\* the EXECUTIVE SUMMARY section that generate_summary appended, as
\* extract_summary_only is to return it: from its heading on, stripped
AppendedSection(final_summary) ==
    Strip(HeadingChars \o RuleChars \o << "\n", "\n" >> \o final_summary
            \o << "\n", "\n" >> \o RuleChars \o << "\n" >>)

\* C22 (as claimed): extract_summary_only returns 'Summary unavailable.' for
\* an empty text, the first 800 characters (with '...' when the text is
\* longer) for a text without an executive summary, and for every DONE report
\* of generate_summary exactly the appended EXECUTIVE SUMMARY section, with
\* nothing of the report body before it
C22_SummaryOnly ==
    Extracted =>
        /\ pdf.report_text = << >> => pdf.summary = Unavailable
        /\ (pdf.report_text # << >> /\ ~HasMarker(pdf.report_text)) =>
              pdf.summary = Strip(FirstChars(pdf.report_text, SummaryLimit))
                              \o (IF Len(pdf.report_text) > SummaryLimit THEN Dots ELSE << >>)
        /\ pdf.stored.kind = "done" =>
              pdf.summary = AppendedSection(pdf.stored.final_summary)

\* the progress context of the frame call in flight
ContextInFlight == calls[Len(calls)].progress

\* the context holds the token
Carries(context, token) == \E p \in 1..Len(context) : context[p] = token

\* C23 (as claimed): the progress context of every analysis call carries the
\* frame position; in file mode it also carries the total frame count, and in
\* live mode it carries no total but the elapsed time
C23_ProgressAsClaimed ==
    pc = "analyze" =>
        /\ Carries(ContextInFlight, ToString(frame_count))
        /\ mode = "file" =>
              ContextInFlight = << " (", ToString(frame_count), "/", ToString(total_frames), ")" >>
        /\ mode = "live" =>
              /\ ~Carries(ContextInFlight, "/")
              /\ Carries(ContextInFlight, FormatTime(elapsed[1]))

\* C23 (amended): the progress context of every analysis call carries the
\* frame position; in file mode it also carries the total frame count when
\* that count is not zero; in file mode with a count of zero and in live mode
\* it is the frame position alone, with no total and no elapsed time
C23_ProgressContext ==
    /\ [](pc = "analyze" =>
            /\ ContextInFlight[2] = ToString(frame_count)
            /\ (mode = "file" /\ total_frames # 0) =>
                  ContextInFlight = << " (", ToString(frame_count), "/", ToString(total_frames), ")" >>
            /\ (mode = "live" \/ total_frames = 0) =>
                  /\ ContextInFlight = << " (Frame ", ToString(frame_count), ")" >>
                  /\ ~Carries(ContextInFlight, "/")
                  /\ mode = "live" => ~Carries(ContextInFlight, FormatTime(elapsed[1])))
    /\ [][ FrameCallIssued =>
              /\ calls'[Len(calls')].progress # << >>
              /\ calls'[Len(calls')].progress[2] = ToString(frame_count) ]_vars
    /\ [](\A i \in CallsOfKind("frame") :
            /\ calls[i].progress[2] = ToString((i - 1) * frame_interval)
            /\ \A j \in CallsOfKind("frame") :
                  Len(calls[i].progress) = Len(calls[j].progress))

\* the second frame of a live run is being analyzed, half a second or more
\* after the start
C23_Witness ==
    /\ mode = "live"
    /\ pc = "analyze"
    /\ frame_count = 1
    /\ elapsed[1] >= 1
    /\ ContextInFlight = << " (Frame ", "1", ")" >>

\* the tokens a report stream can deliver
ChunkTokens ==
    { Chunk(m, i) : m \in {DefaultModel, alt_model}, i \in 1..(MaxChunks + 1) }

\* the text holds something a report stream delivered
HasChunk(text) == \E p \in 1..Len(text) : text[p] \in ChunkTokens

\* a report stream raises in this step
StreamFails ==
    /\ pc \in {"primary_stream", "fallback_stream"}
    /\ pc' \in {"done", "fallback_report"}

\* C24: the body of every report returned in DONE is the complete stream of
\* exactly one model, the one its digest call quoted; when a report stream
\* raises, what it had delivered is dropped: no digest call is issued for it,
\* the text returned for it is the error text without any streamed chunk, and
\* the fallback stream starts from an empty body and holds the fallback
\* model's chunks only
C24_PartialDiscarded ==
    /\ []((pc = "done" /\ DoneShaped) =>
            /\ Body(result.text) = QuotedReport(digest_prompt)
            /\ StreamedBy(Body(result.text), calls[Len(calls)].model)
            /\ calls[Len(calls)].kind = "digest")
    /\ []((pc = "done" /\ result.kind = "text" /\ ErrorFlagged) => ~HasChunk(result.text))
    /\ [](pc = "fallback_stream" => StreamedBy(summary, alt_model))
    /\ [](pc = "primary_stream" => StreamedBy(summary, DefaultModel))
    /\ [][ StreamFails =>
              /\ ~Issued("digest")
              /\ digest_prompt' = digest_prompt
              /\ pc' = "done" => (result'.kind = "text" /\ ~HasChunk(result'.text)) ]_vars
    /\ [][ (pc = "fallback_report" /\ pc' = "fallback_stream") => summary' = << >> ]_vars

\* the primary stream delivered a chunk and then failed with a rate limit: the
\* error text is returned and the chunk is not in it
C24_Witness ==
    /\ pc = "done"
    /\ summary = << Chunk(DefaultModel, 1) >>
    /\ result = ReturnText(<< PrimaryPrefix, "rate", "limit" >>)
    /\ CallsOfKind("digest") = {}

\* the timestamps of the batch entries, in batch order
BatchTimes == [i \in 1..Len(frame_analyses) |-> frame_analyses[i].time]

\* C25: in live mode no analysis call is issued in an iteration whose elapsed
\* time has reached duration_seconds or that finds the 'q' key pressed; the
\* frame read in that iteration is neither analyzed nor counted; so every
\* batch entry carries a time strictly below the budget and the times do not
\* decrease along the batch
C25_LiveStop ==
    /\ [](mode = "live" =>
            /\ \A i \in 1..Len(frame_analyses) :
                  BatchTimes[i] < duration_seconds * TicksPerSecond
            /\ \A i \in 1..Len(frame_analyses) : \A j \in 1..Len(frame_analyses) :
                  i < j => BatchTimes[i] <= BatchTimes[j])
    /\ [][ (mode = "live" /\ FrameCallIssued) =>
              /\ ~q_pending
              /\ elapsed'[1] < duration_seconds * TicksPerSecond
              /\ elapsed'[1] = now' ]_vars
    /\ [][ (mode = "live" /\ pc = "read" /\ frame_count < source_frames
              /\ (q_pending \/ now' >= duration_seconds * TicksPerSecond)) =>
              /\ pc' \in {"read", "release"}
              /\ calls' = calls ]_vars
    /\ [][ (mode = "live" /\ pc = "read" /\ pc' = "release") =>
              /\ calls' = calls
              /\ frame_count' = frame_count
              /\ analyzed_count' = analyzed_count
              /\ frame_analyses' = frame_analyses ]_vars
    /\ [][ (mode = "live" /\ ~InLoop) =>
              (frame_analyses' = frame_analyses /\ frame_count' = frame_count) ]_vars

\* a two-second live run stopped by its budget on a delivered frame: two
\* entries, the later one taken half a second before the budget
C25_Witness ==
    /\ mode = "live"
    /\ pc = "release"
    /\ ~q_pending
    /\ duration_seconds = 2
    /\ frame_count < source_frames
    /\ Len(frame_analyses) = 2
    /\ BatchTimes[1] < BatchTimes[2]
    /\ BatchTimes[2] = duration_seconds * TicksPerSecond - 1
    /\ frame_count = frame_analyses[2].frame + 1

\* the handler of request r answers in this step
Answers(r) == runs[r].pc # "responded" /\ runs'[r].pc = "responded"

\* the error-flagged texts generate_summary returns when the report calls fail
ErrorReports ==
    { PrimaryErrorReport(msg) : msg \in ReportFailures }
       \cup { FallbackErrorReport(msg) : msg \in ReportFailures }

\* C26: the upload handler writes the report file and answers 200 exactly
\* when process_video_file returned a text that is not empty, the sentinel and
\* the error-flagged texts included; when process_video_file returned None it
\* answers 500 and writes nothing; when processing raised it answers 500,
\* the uploaded video is gone from uploads/ and no report is written
C26_ResponseByOutcome ==
    /\ [](\A r \in Requests : runs[r].pc = "done" => runs[r].summary # << >>)
    /\ [][ \A r \in Requests : Answers(r) =>
              /\ runs'[r].response.status \in {200, 400, 500}
              /\ runs'[r].response.status = 200 <=>
                    (runs[r].pc = "done" /\ runs[r].summary # << >>)
              /\ runs'[r].response.status = 200 =>
                    /\ runs'[r].response.report = runs[r].summary
                    /\ runs'[r].response.report_file = ReportPath(runs[r].timestamp[1])
                    /\ disk'.reports = Write(disk.reports, ReportPath(runs[r].timestamp[1]),
                                             runs[r].summary)
                    /\ disk'.uploads = disk.uploads
              /\ runs[r].pc = "none" =>
                    (runs'[r].response.status = 500 /\ disk' = disk)
              /\ runs[r].pc = "raised" =>
                    /\ runs'[r].response.status = 500
                    /\ SavedPath(r) \notin DOMAIN disk'.uploads
                    /\ disk'.reports = disk.reports
              /\ runs[r].pc = "upload" =>
                    (runs'[r].response.status = 400 /\ disk' = disk) ]_vars
    /\ [][ disk'.reports # disk.reports =>
              \E r \in Requests : Answers(r) /\ runs'[r].response.status = 200 ]_vars
    /\ [][ (\E path \in DOMAIN disk.uploads : path \notin DOMAIN disk'.uploads) =>
              \E r \in Requests : Answers(r) /\ runs[r].pc = "raised" ]_vars

\* one request was answered 200 with an error-flagged report that is on disk,
\* the other raised on its first frame and was answered 500, its video removed
C26_Witness ==
    \E r \in Requests : \E s \in Requests \ {r} :
        /\ Succeeded(r)
        /\ runs[r].response.report \in ErrorReports
        /\ disk.reports[runs[r].response.report_file] = runs[r].response.report
        /\ runs[s].pc = "responded"
        /\ runs[s].response.status = 500
        /\ runs[s].frame_interval = 0
        /\ Len(runs[s].video) > 0
        /\ SavedPath(s) \notin DOMAIN disk.uploads
        /\ ReportPath(runs[s].timestamp[1]) \notin DOMAIN disk.reports

====
